---- MODULE Spec2Model ----
(***************************************************************************)
(* httpstan: the model cache (httpstan/cache.py) and the build coordinator *)
(* (httpstan/models.py).                                                   *)
(*                                                                         *)
(* The state is the cache directory tree on disk, the build requests       *)
(* running as coroutines on one asyncio event loop, the executor jobs      *)
(* they dispatch, and a second process sharing the cache root.             *)
(*                                                                         *)
(* Strings are modelled as sequences of pieces, so that concatenation is   *)
(* \o and a file suffix is the last piece: "stderr.log" is                 *)
(* <<"stderr", ".log">>.  A path is a sequence of such names, relative to  *)
(* the cache root appdirs.user_cache_dir("httpstan", version).             *)
(***************************************************************************)
EXTENDS Integers, Sequences, FiniteSets, TLC

\* ------------------------------------------------------------ bounds

\* number of tasks the event loop runs: build requests (coroutines) and
\* cache calls (build log, module loader, fit store)
MaxTasks == 3
\* longest fit blob, in bytes
MaxBlobLen == 2
\* number of fit store calls made when only the fit store is exercised
MaxFitCalls == 3
\* number of load_fit calls made by the second process
MaxPeerReads == 1

\* ------------------------------------------------------------ helpers

None == [k |-> "None", v |-> <<>>]

Prefixes(s) == {SubSeq(s, 1, n) : n \in 0..Len(s)}

Last(s) == s[Len(s)]

\* ------------------------------------------------------------ identity
\* models.py calculate_model_name

\* digest_size of the blake2b hash, in bytes
digest_size == 5

\* The characters of program code and of the system identifiers are
\* numbers below CharBase.
CharBase == 4

\* System identifiers hashed with the program code.
httpstan_version == <<1>>
sys_platform == <<2>>
sys_maxsize == <<3>>
sys_version == <<0>>
sys_executable == <<1, 2>>

RECURSIVE PosVal(_, _)
PosVal(acc, stream) ==
  IF stream = <<>> THEN acc
  ELSE PosVal(acc * CharBase + Head(stream), Tail(stream))

\* hashlib.blake2b(digest_size=5) of the byte stream fed by update():
\* modelled as collision-free on the streams of the model, the stream read
\* as a numeral with a leading 1 and written as digest_size bytes
\* (big-endian).
RECURSIVE ToBytes(_, _)
ToBytes(v, n) ==
  IF n = 0 THEN <<>> ELSE Append(ToBytes(v \div 256, n - 1), v % 256)

blake2b(stream) == ToBytes(PosVal(1, stream), digest_size)

\* lower-cased RFC 4648 base-32 alphabet
b32alphabet ==
  << "a", "b", "c", "d", "e", "f", "g", "h", "i", "j", "k", "l", "m", "n",
     "o", "p", "q", "r", "s", "t", "u", "v", "w", "x", "y", "z", "2", "3",
     "4", "5", "6", "7" >>

BitsOf(bytes) ==
  [n \in 1..(8 * Len(bytes)) |->
     (bytes[((n - 1) \div 8) + 1] \div (2 ^ (7 - ((n - 1) % 8)))) % 2]

\* base64.b32encode(...).decode().lower() of a digest whose length is a
\* multiple of 5 bytes (no padding)
b32encode_lower(bytes) ==
  LET bits == BitsOf(bytes)
      quintet(j) == 16 * bits[5 * j - 4] + 8 * bits[5 * j - 3]
                    + 4 * bits[5 * j - 2] + 2 * bits[5 * j - 1] + bits[5 * j]
  IN [j \in 1..((8 * Len(bytes)) \div 5) |-> b32alphabet[quintet(j) + 1]]

\* The hash input of a program: the code, then the five system identifiers,
\* fed to the hash one after the other.
HashStream(program_code, version, plat, maxsize, pyversion, executable) ==
  program_code \o version \o plat \o maxsize \o pyversion \o executable

\* A model name "models/<id>" is the sequence of its two "/"-separated
\* segments.
ModelNameOf(program_code, version, plat, maxsize, pyversion, executable) ==
  << <<"models">>,
     b32encode_lower(blake2b(HashStream(program_code, version, plat, maxsize,
                                        pyversion, executable))) >>

\* Stan programs: the first character decides what the transpiler makes of
\* it (0: valid, 1: syntax error, 2: semantic error); a valid program that
\* holds the character 3 draws the integer-division warning.
Programs == {<<0>>, <<0, 3>>, <<1>>, <<2>>}

\* The model names of the programs under the system identifiers of this
\* installation, each calculated once (<<>> is the program of a request not
\* made yet).
model_names ==
  [program_code \in Programs \cup {<<>>} |->
     ModelNameOf(program_code, httpstan_version, sys_platform, sys_maxsize,
                 sys_version, sys_executable)]

calculate_model_name(program_code) == model_names[program_code]

\* ------------------------------------------------------------ results

\* What a call returns or raises: k is "ok" or the exception's class.
Ok(v) == [k |-> "ok", v |-> v]
Raise(kind, msg) == [k |-> kind, v |-> msg]

\* ------------------------------------------------------------ gzip
\* cache.py dump_fit / load_fit: gzip.open(fit_filename, mode)

\* first byte of the gzip header
GzipMagic == 31

Bytes == {0, 1}

RECURSIVE RunLength(_)
RunLength(b) ==
  IF Len(b) > 1 /\ b[2] = b[1] THEN 1 + RunLength(Tail(b)) ELSE 1

\* The compressed body: one <<count, byte>> pair per run of equal bytes,
\* closed by an end-of-block mark 0.
RECURSIVE Deflate(_)
Deflate(b) ==
  IF b = <<>> THEN <<0>>
  ELSE LET n == RunLength(b)
       IN <<n, Head(b)>> \o Deflate(SubSeq(b, n + 1, Len(b)))

RECURSIVE Checksum(_)
Checksum(b) ==
  IF b = <<>> THEN 0 ELSE (2 * Checksum(Tail(b)) + Head(b) + 1) % 251

\* One gzip member: header, compressed body, CRC and length of the data.
GzipMember(b) == <<GzipMagic>> \o Deflate(b) \o <<Checksum(b), Len(b)>>

RECURSIVE Repeat(_, _)
Repeat(x, n) == IF n = 0 THEN <<>> ELSE <<x>> \o Repeat(x, n - 1)

\* Decompress a body: the data and what follows the end-of-block mark, or
\* EOFError when the stream ends before the mark.
RECURSIVE Inflate(_)
Inflate(z) ==
  IF z = <<>> THEN Raise("EOFError", <<>>)
  ELSE IF Head(z) = 0 THEN Ok([data |-> <<>>, rest |-> Tail(z)])
  ELSE IF Len(z) < 2 THEN Raise("EOFError", <<>>)
  ELSE LET more == Inflate(SubSeq(z, 3, Len(z)))
       IN IF more.k # "ok" THEN more
          ELSE Ok([data |-> Repeat(z[2], z[1]) \o more.v.data,
                   rest |-> more.v.rest])

\* GzipFile.read(): every member of the file, one after the other.  An empty
\* file (and the end of the file after a member) reads as no data.
RECURSIVE GzipRead(_)
GzipRead(content) ==
  IF content = <<>> THEN Ok(<<>>)
  ELSE IF Head(content) # GzipMagic THEN Raise("BadGzipFile", <<>>)
  ELSE LET body == Inflate(Tail(content))
       IN IF body.k # "ok" THEN body
          ELSE IF Len(body.v.rest) < 2 THEN Raise("EOFError", <<>>)
          ELSE IF body.v.rest[1] # Checksum(body.v.data)
                  \/ body.v.rest[2] # Len(body.v.data)
               THEN Raise("BadGzipFile", <<>>)
          ELSE LET next == GzipRead(SubSeq(body.v.rest, 3, Len(body.v.rest)))
               IN IF next.k # "ok" THEN next
                  ELSE Ok(body.v.data \o next.v)

\* ------------------------------------------------------------ text files
\* cache.py: open(path, "w") and open(path), text mode with newline=None

os_linesep == <<"LF">>

\* Writing translates each "\n" to os.linesep.
RECURSIVE TextWrite(_)
TextWrite(text) ==
  IF text = <<>> THEN <<>>
  ELSE (IF Head(text) = "LF" THEN os_linesep ELSE <<Head(text)>>)
       \o TextWrite(Tail(text))

\* Reading translates "\r\n" and "\r" to "\n" (universal newlines).
RECURSIVE TextRead(_)
TextRead(content) ==
  IF content = <<>> THEN <<>>
  ELSE IF Head(content) = "CR"
       THEN IF Len(content) > 1 /\ content[2] = "LF"
            THEN <<"LF">> \o TextRead(SubSeq(content, 3, Len(content)))
            ELSE <<"LF">> \o TextRead(Tail(content))
  ELSE <<Head(content)>> \o TextRead(Tail(content))

\* ------------------------------------------------------------ paths

\* pathlib's suffix of a file name: its last dotted piece
DottedPieces == {".cpp", ".log", ".dat", ".gz", ".so",
                 ".cpython-38-x86_64-linux-gnu"}

suffix(name) ==
  IF Len(name) > 1 /\ Last(name) \in DottedPieces THEN Last(name) ELSE ""

\* importlib.machinery.EXTENSION_SUFFIXES
EXTENSION_SUFFIXES == {".cpython-38-x86_64-linux-gnu.so", ".abi3.so", ".so"}

\* os.makedirs(path, exist_ok=True): the directory and its missing parents,
\* the cache root included
makedirs(d, path) == d \cup Prefixes(path)

\* cache.py model_directory: <cache>/models/<model_name.split("/")[1]>
model_directory(model_name) == << <<"models">>, model_name[2] >>

\* a segment of a "/"-separated name that names something: os.path.join adds
\* nothing to a path for an empty segment ("a//b" is the path a/b)
IsSegment(s) == s # <<>>

\* cache.py dump_fit / load_fit: the directory and the file of a fit
fit_path(name) == SelectSeq(SubSeq(name, 1, Len(name) - 1), IsSegment)

\* Mutant of fit_filename: one fit file per model, whatever the fit's name.
fit_filename_per_model(name) ==
  << name[1], name[2], <<"fit", ".dat", ".gz">> >>

fit_filename(name) == Append(fit_path(name), Last(name) \o <<".dat", ".gz">>)

log_path(model_name) == Append(model_directory(model_name), <<"stderr", ".log">>)

\* models.py build_services_extension_module: f"model_{id}"
stan_model_name_of(model_name) == <<"model_">> \o model_name[2]

cpp_code_path_of(model_name) ==
  Append(model_directory(model_name), stan_model_name_of(model_name) \o <<".cpp">>)

\* models.py import_services_extension_module: the entries of a directory
iterdir(d, f, path) ==
  {q \in d \cup DOMAIN f : Len(q) = Len(path) + 1 /\ SubSeq(q, 1, Len(path)) = path}

\* Mutant of module_candidates: the loader takes any entry of the model
\* directory, whatever its suffix.
module_candidates_any(d, f, model_name) == iterdir(d, f, model_directory(model_name))

\* the files the loader may pick: next(filter(...)) takes the first in
\* directory order
module_candidates(d, f, model_name) ==
  {q \in iterdir(d, f, model_directory(model_name)) :
     suffix(Last(q)) \in EXTENSION_SUFFIXES}

\* ------------------------------------------------------------ collaborators

\* httpstan.compile.compile(program_code, stan_model_name) ->
\* (cpp_code, warnings), or ValueError
compile(program_code, stan_model_name) ==
  IF Head(program_code) = 1 THEN Raise("ValueError", <<"Syntax error in">>)
  ELSE IF Head(program_code) = 2
       THEN Raise("ValueError", <<"Semantic error in">>)
  ELSE Ok([cpp_code |-> <<"Code generated by stanc">> \o stan_model_name,
           warnings |-> IF \E i \in DOMAIN program_code : program_code[i] = 3
                        THEN <<"int division">> ELSE <<>>])

\* httpstan.build_ext.run_build_ext(extensions, build_lib): what the
\* toolchain may answer, its captured text returned or raised.
NativeOutcomes == {Ok(<<"warning">>), Raise("BuildError", <<"error">>)}

\* The module file a successful native build leaves in build_lib.
module_path_of(extension, build_lib) ==
  Append(build_lib, extension.name \o <<".cpython-38-x86_64-linux-gnu", ".so">>)

ModuleImage == <<"ELF">>

\* ------------------------------------------------------------ state

VARIABLES
  dirs,       \* the directories under the cache root (paths; <<>> is the root)
  files,      \* the files under the cache root: path -> content
  req,        \* build request -> [pc, program_code, out, cached]; cached
              \* records whether the model directory held a module file
              \* when the request started
  job,        \* build request -> its executor job [st, extension, build_lib,
              \* out, runs]; st is "none", "queued", "running", "done" or
              \* "cancelled"; runs counts the request's calls of run_build_ext
  loop,       \* the task running on the event loop thread, or <<"idle", 0>>
  fit,        \* the dump_fit call in progress on the event loop
  ret,        \* the last cache call completed on the event loop
  budget,     \* number of tasks the event loop may still start
  lastLog,    \* model name -> text of the last completed log write
  lastDump,   \* fit name -> blob of the last completed dump_fit
  peerRet,    \* the last load_fit completed by the second process
  peerReads,  \* number of load_fit calls made by the second process
  ident       \* two calls of the model name calculation: their inputs and
              \* the names they returned

vars == <<dirs, files, req, job, loop, fit, ret, budget, lastLog, lastDump,
          peerRet, peerReads, ident>>

Requests == 1..MaxTasks

ModelNames == {calculate_model_name(c) : c \in Programs}

\* The model names the cache is asked about: one of a valid program and one
\* of a program the transpiler rejects.
CacheNames == {calculate_model_name(<<0>>), calculate_model_name(<<1>>)}

\* Fit names: "models/<id>/fits/f1" and "models/<id>/f2", both under the
\* model of the first program.
FitNames ==
  { calculate_model_name(<<0>>) \o << <<"fits">>, <<"f1">> >>,
    calculate_model_name(<<0>>) \o << <<"f2">> >> }

Blobs == UNION {[1..n -> Bytes] : n \in 0..MaxBlobLen}

LogTexts == {<<>>, <<"warning">>, <<"CR">>}

Idle == <<"idle", 0>>

NoJob == [st |-> "none", extension |-> None, build_lib |-> <<>>, out |-> None,
          runs |-> 0]

NoFit == [st |-> "closed", name |-> <<>>, blob |-> <<>>, sent |-> 0]

NoRet == [op |-> "none", arg |-> <<>>, val |-> None]

NoIdent == [a |-> <<>>, b |-> <<>>, na |-> None, nb |-> None]

Init ==
  /\ dirs = {}
  /\ files = <<>>
  /\ req = [r \in Requests |-> [pc |-> "pending", program_code |-> <<>>, out |-> None,
                            cached |-> FALSE]]
  /\ job = [r \in Requests |-> NoJob]
  /\ loop = Idle
  /\ fit = NoFit
  /\ ret = NoRet
  /\ budget = MaxTasks
  /\ lastLog = [m \in ModelNames |-> None]
  /\ lastDump = [n \in FitNames |-> None]
  /\ peerRet = [arg |-> <<>>, val |-> None, old |-> None, new |-> None]
  /\ peerReads = 0
  /\ ident = NoIdent

\* open(path, "w" / "wb"): the file is created, or truncated in place
Truncated(f, path) == (path :> <<>>) @@ f

\* the file's content once the writer has written data and closed it
Written(f, path, data) == (path :> data) @@ f

\* ------------------------------------------------------------ build
\* models.py build_services_extension_module, one coroutine per request.
\* A coroutine keeps the event loop thread from its start to its await
\* and from its resumption to its return.

BuildVarsUnchanged ==
  UNCHANGED <<fit, ret, lastLog, lastDump, peerRet, peerReads, ident>>

\* the model directory of the program holds a module file
ModuleThere(program_code) ==
  module_candidates(dirs, files, calculate_model_name(program_code)) # {}

\* Mutant of BuildStart: os.makedirs without exist_ok, which raises
\* FileExistsError for a directory that exists.
BuildStartExclusive(r, program_code) ==
  /\ loop = Idle
  /\ req[r].pc = "pending"
  /\ \A q \in Requests : q < r => req[q].pc # "pending"
  /\ budget > 0
  /\ budget' = budget - 1
  /\ LET there == model_directory(calculate_model_name(program_code)) \in dirs
     IN /\ dirs' = makedirs(dirs, model_directory(calculate_model_name(program_code)))
        /\ req' = [req EXCEPT ![r] = [pc |-> IF there THEN "failed" ELSE "transpiling",
                                      program_code |-> program_code,
                                      out |-> IF there
                                              THEN Raise("FileExistsError", <<>>)
                                              ELSE None,
                                      cached |-> ModuleThere(program_code)]]
        /\ loop' = IF there THEN Idle ELSE <<"build", r>>
  /\ UNCHANGED <<files, job>>
  /\ BuildVarsUnchanged

\* Mutant of BuildStart: a request that finds a module file in the model
\* directory returns at once, without a build.
BuildStartSkip(r, program_code) ==
  /\ loop = Idle
  /\ req[r].pc = "pending"
  /\ \A q \in Requests : q < r => req[q].pc # "pending"
  /\ budget > 0
  /\ budget' = budget - 1
  /\ dirs' = makedirs(dirs, model_directory(calculate_model_name(program_code)))
  /\ req' = [req EXCEPT ![r] = [pc |-> IF ModuleThere(program_code)
                                       THEN "succeeded" ELSE "transpiling",
                                program_code |-> program_code,
                                out |-> IF ModuleThere(program_code)
                                        THEN Ok(<<>>) ELSE None,
                                cached |-> ModuleThere(program_code)]]
  /\ loop' = IF ModuleThere(program_code) THEN Idle ELSE <<"build", r>>
  /\ UNCHANGED <<files, job>>
  /\ BuildVarsUnchanged

\* lines 116-119: the model name, and os.makedirs of the model directory.
\* Requests are numbered in the order in which they start.
BuildStart(r, program_code) ==
  /\ loop = Idle
  /\ req[r].pc = "pending"
  /\ \A q \in Requests : q < r => req[q].pc # "pending"
  /\ budget > 0
  /\ budget' = budget - 1
  /\ dirs' = makedirs(dirs, model_directory(calculate_model_name(program_code)))
  /\ req' = [req EXCEPT ![r] = [pc |-> "transpiling",
                                program_code |-> program_code, out |-> None,
                                cached |-> ModuleThere(program_code)]]
  /\ loop' = <<"build", r>>
  /\ UNCHANGED <<files, job>>
  /\ BuildVarsUnchanged

\* Mutant of BuildTranspile: the transpiler's error is swallowed and the
\* build goes on to the native build.
BuildTranspileSwallow(r) ==
  /\ loop = <<"build", r>>
  /\ req[r].pc = "transpiling"
  /\ LET model_name == calculate_model_name(req[r].program_code)
         res == compile(req[r].program_code, stan_model_name_of(model_name))
     IN req' = [req EXCEPT ![r].pc = IF res.k = "ok" THEN "persisting"
                                     ELSE "describing"]
  /\ loop' = loop
  /\ UNCHANGED <<dirs, files, job, budget>>
  /\ BuildVarsUnchanged

\* lines 121-122: the transpiler; its ValueError ends the coroutine
BuildTranspile(r) ==
  /\ loop = <<"build", r>>
  /\ req[r].pc = "transpiling"
  /\ LET model_name == calculate_model_name(req[r].program_code)
         res == compile(req[r].program_code, stan_model_name_of(model_name))
     IN IF res.k = "ok"
        THEN /\ req' = [req EXCEPT ![r].pc = "persisting"]
             /\ loop' = loop
        ELSE /\ req' = [req EXCEPT ![r].pc = "failed", ![r].out = res]
             /\ loop' = Idle
  /\ UNCHANGED <<dirs, files, job, budget>>
  /\ BuildVarsUnchanged

\* Mutant of BuildPersist: when the write of the generated code fails, the
\* request goes back to the transpiler and tries again.
BuildPersistRedo(r) ==
  /\ loop = <<"build", r>>
  /\ req[r].pc = "persisting"
  /\ LET model_name == calculate_model_name(req[r].program_code)
         res == compile(req[r].program_code, stan_model_name_of(model_name))
     IN \E io \in {"ok", "OSError"} :
          IF io = "ok"
          THEN /\ files' = Written(files, cpp_code_path_of(model_name),
                                   TextWrite(res.v.cpp_code))
               /\ req' = [req EXCEPT ![r].pc = "describing"]
          ELSE /\ files' = files
               /\ req' = [req EXCEPT ![r].pc = "transpiling"]
  /\ loop' = loop
  /\ UNCHANGED <<dirs, job, budget>>
  /\ BuildVarsUnchanged

\* Mutant of BuildPersist: the write of the generated code is awaited, and
\* the coroutine leaves the event loop to other tasks after it.
BuildPersistYield(r) ==
  /\ loop = <<"build", r>>
  /\ req[r].pc = "persisting"
  /\ LET model_name == calculate_model_name(req[r].program_code)
         res == compile(req[r].program_code, stan_model_name_of(model_name))
     IN \E io \in {"ok", "OSError"} :
          IF io = "ok"
          THEN /\ files' = Written(files, cpp_code_path_of(model_name),
                                   TextWrite(res.v.cpp_code))
               /\ req' = [req EXCEPT ![r].pc = "describing"]
          ELSE /\ files' = files
               /\ req' = [req EXCEPT ![r].pc = "failed",
                                     ![r].out = Raise("OSError", <<>>)]
  /\ loop' = Idle
  /\ UNCHANGED <<dirs, job, budget>>
  /\ BuildVarsUnchanged

\* lines 123-125: the generated code is written to <model dir>/model_<id>.cpp;
\* an OSError of open() or write() ends the coroutine
BuildPersist(r) ==
  /\ loop = <<"build", r>>
  /\ req[r].pc = "persisting"
  /\ LET model_name == calculate_model_name(req[r].program_code)
         res == compile(req[r].program_code, stan_model_name_of(model_name))
     IN \E io \in {"ok", "OSError"} :
          IF io = "ok"
          THEN /\ files' = Written(files, cpp_code_path_of(model_name),
                                   TextWrite(res.v.cpp_code))
               /\ req' = [req EXCEPT ![r].pc = "describing"]
               /\ loop' = loop
          ELSE /\ files' = files
               /\ req' = [req EXCEPT ![r].pc = "failed",
                                     ![r].out = Raise("OSError", <<>>)]
               /\ loop' = Idle
  /\ UNCHANGED <<dirs, job, budget>>
  /\ BuildVarsUnchanged

\* lines 156-169: the setuptools.Extension of the model
extension_of(model_name) ==
  [name |-> <<"stan_services_">> \o stan_model_name_of(model_name),
   sources |-> <<cpp_code_path_of(model_name)>>]

\* the executor job of a request for model_name
job_of(model_name) ==
  [st |-> "queued", extension |-> extension_of(model_name),
   build_lib |-> model_directory(model_name), out |-> None, runs |-> 0]

\* Mutant of BuildDispatch: a request that finds a native build of its
\* model already dispatched waits for that one and starts none of its own.
BuildDispatchShared(r) ==
  /\ loop = <<"build", r>>
  /\ req[r].pc = "describing"
  /\ LET model_name == calculate_model_name(req[r].program_code)
     IN job' = IF \E q \in Requests :
                     job[q].st # "none" /\ job[q].build_lib = model_directory(model_name)
               THEN job
               ELSE [job EXCEPT ![r] = job_of(model_name)]
  /\ req' = [req EXCEPT ![r].pc = "compiling"]
  /\ loop' = Idle
  /\ UNCHANGED <<dirs, files, budget>>
  /\ BuildVarsUnchanged

\* Mutant of BuildDispatch: run_build_ext is called on the event loop
\* thread, which the coroutine keeps while the toolchain runs.
BuildDispatchBlocking(r) ==
  /\ loop = <<"build", r>>
  /\ req[r].pc = "describing"
  /\ job' = [job EXCEPT ![r] = job_of(calculate_model_name(req[r].program_code))]
  /\ req' = [req EXCEPT ![r].pc = "compiling"]
  /\ loop' = loop
  /\ UNCHANGED <<dirs, files, budget>>
  /\ BuildVarsUnchanged

\* lines 127-177: the build description, submitted to the default executor
\* as a work item in its queue; the coroutine awaits the job and leaves the
\* event loop to other tasks
BuildDispatch(r) ==
  /\ loop = <<"build", r>>
  /\ req[r].pc = "describing"
  /\ job' = [job EXCEPT ![r] = job_of(calculate_model_name(req[r].program_code))]
  /\ req' = [req EXCEPT ![r].pc = "compiling"]
  /\ loop' = Idle
  /\ UNCHANGED <<dirs, files, budget>>
  /\ BuildVarsUnchanged

\* A thread of the executor takes the work item off the queue and calls
\* run_build_ext.
WorkerStart(r) ==
  /\ job[r].st = "queued"
  /\ job' = [job EXCEPT ![r].st = "running", ![r].runs = @ + 1]
  /\ UNCHANGED <<dirs, files, req, loop, budget>>
  /\ BuildVarsUnchanged

\* The executor's thread that took the job: run_build_ext returns or
\* raises; a successful build has written the module file into build_lib.
WorkerFinish(r) ==
  /\ job[r].st = "running"
  /\ \E outcome \in NativeOutcomes :
       /\ job' = [job EXCEPT ![r].st = "done", ![r].out = outcome]
       /\ files' = IF outcome.k = "ok"
                   THEN Written(files,
                                module_path_of(job[r].extension, job[r].build_lib),
                                ModuleImage)
                   ELSE files
  /\ UNCHANGED <<dirs, req, loop, budget>>
  /\ BuildVarsUnchanged

\* Mutant of BuildResume: the transpiler's warnings are added to the text
\* returned.
BuildResumeWithWarnings(r) ==
  /\ loop = Idle
  /\ req[r].pc = "compiling"
  /\ job[r].st = "done"
  /\ LET model_name == calculate_model_name(req[r].program_code)
         res == compile(req[r].program_code, stan_model_name_of(model_name))
     IN req' = [req EXCEPT ![r].pc = IF job[r].out.k = "ok" THEN "succeeded"
                                     ELSE "failed",
                           ![r].out = IF job[r].out.k = "ok"
                                      THEN Ok(res.v.warnings \o job[r].out.v)
                                      ELSE job[r].out]
  /\ UNCHANGED <<dirs, files, job, loop, budget>>
  /\ BuildVarsUnchanged

\* Mutant of BuildResume: a failed native build is tried once more.
BuildResumeRetry(r) ==
  /\ loop = Idle
  /\ req[r].pc = "compiling"
  /\ job[r].st = "done"
  /\ IF job[r].out.k # "ok" /\ job[r].runs = 1
     THEN /\ job' = [job EXCEPT ![r].st = "queued", ![r].out = None]
          /\ req' = req
     ELSE /\ req' = [req EXCEPT ![r].pc = IF job[r].out.k = "ok" THEN "succeeded"
                                          ELSE "failed",
                                ![r].out = job[r].out]
          /\ job' = job
  /\ UNCHANGED <<dirs, files, loop, budget>>
  /\ BuildVarsUnchanged

\* Mutant of BuildResume: the build stores the text of its native build as
\* the build log before it returns or raises.
BuildResumeLogging(r) ==
  /\ loop = Idle
  /\ req[r].pc = "compiling"
  /\ job[r].st = "done"
  /\ req' = [req EXCEPT ![r].pc = IF job[r].out.k = "ok" THEN "succeeded"
                                  ELSE "failed",
                        ![r].out = job[r].out]
  /\ files' = Written(files, log_path(calculate_model_name(req[r].program_code)),
                      TextWrite(job[r].out.v))
  /\ UNCHANGED <<dirs, job, loop, budget>>
  /\ BuildVarsUnchanged

\* lines 175-178: the await returns the job's text, or raises its exception
BuildResume(r) ==
  /\ loop = Idle
  /\ req[r].pc = "compiling"
  /\ job[r].st = "done"
  /\ req' = [req EXCEPT ![r].pc = IF job[r].out.k = "ok" THEN "succeeded"
                                  ELSE "failed",
                        ![r].out = job[r].out]
  /\ UNCHANGED <<dirs, files, job, loop, budget>>
  /\ BuildVarsUnchanged

\* Mutant of Cancel: the cancellation also stops a native build that a
\* thread of the executor is running.
CancelStoppingWorker(r) ==
  /\ loop = Idle
  /\ req[r].pc = "compiling"
  /\ req' = [req EXCEPT ![r].pc = "failed",
                        ![r].out = Raise("CancelledError", <<>>)]
  /\ job' = IF job[r].st \in {"queued", "running"}
            THEN [job EXCEPT ![r].st = "cancelled"]
            ELSE job
  /\ UNCHANGED <<dirs, files, loop, budget>>
  /\ BuildVarsUnchanged

\* lines 175-177, the caller gives up: another task on the event loop
\* cancels the request while it awaits its job.  The await raises
\* CancelledError; the cancellation reaches the executor's future, which
\* drops a work item still in the queue and cannot stop one that a thread
\* has taken.
Cancel(r) ==
  /\ loop = Idle
  /\ req[r].pc = "compiling"
  /\ req' = [req EXCEPT ![r].pc = "failed",
                        ![r].out = Raise("CancelledError", <<>>)]
  /\ job' = IF job[r].st = "queued" THEN [job EXCEPT ![r].st = "cancelled"]
            ELSE job
  /\ UNCHANGED <<dirs, files, loop, budget>>
  /\ BuildVarsUnchanged

\* ------------------------------------------------------------ build log
\* cache.py dump_/load_services_extension_module_compiler_output

CallVarsUnchanged == UNCHANGED <<req, job, fit, peerRet, peerReads, ident>>

\* Mutant of DumpLog: the log write makes the model directory it misses.
DumpLogCreating(compiler_output, model_name) ==
  /\ loop = Idle
  /\ budget > 0
  /\ budget' = budget - 1
  /\ dirs' = makedirs(dirs, model_directory(model_name))
  /\ files' = Written(files, log_path(model_name), TextWrite(compiler_output))
  /\ lastLog' = [lastLog EXCEPT ![model_name] = Ok(compiler_output)]
  /\ ret' = [op |-> "dump_log", arg |-> model_name, val |-> None]
  /\ UNCHANGED <<loop, lastDump>>
  /\ CallVarsUnchanged

DumpLog(compiler_output, model_name) ==
  /\ loop = Idle
  /\ budget > 0
  /\ budget' = budget - 1
  /\ IF model_directory(model_name) \notin dirs
     THEN /\ ret' = [op |-> "dump_log", arg |-> model_name,
                     val |-> Raise("KeyError", <<>>)]
          /\ UNCHANGED <<files, lastLog>>
     ELSE \E io \in {"ok", "OSError"} :
            IF io = "ok"
            THEN /\ files' = Written(files, log_path(model_name),
                                     TextWrite(compiler_output))
                 /\ lastLog' = [lastLog EXCEPT ![model_name] = Ok(compiler_output)]
                 /\ ret' = [op |-> "dump_log", arg |-> model_name, val |-> None]
            ELSE /\ ret' = [op |-> "dump_log", arg |-> model_name,
                            val |-> Raise("OSError", <<>>)]
                 /\ UNCHANGED <<files, lastLog>>
  /\ UNCHANGED <<dirs, loop, lastDump>>
  /\ CallVarsUnchanged

\* what load_services_extension_module_compiler_output returns or raises
load_log(d, f, model_name) ==
  IF model_directory(model_name) \notin d THEN Raise("KeyError", <<>>)
  ELSE IF log_path(model_name) \notin DOMAIN f
       THEN Raise("FileNotFoundError", <<>>)
  ELSE Ok(TextRead(f[log_path(model_name)]))

LoadLog(model_name) ==
  /\ loop = Idle
  /\ budget > 0
  /\ budget' = budget - 1
  /\ ret' = [op |-> "load_log", arg |-> model_name,
             val |-> load_log(dirs, files, model_name)]
  /\ UNCHANGED <<dirs, files, loop, lastLog, lastDump>>
  /\ CallVarsUnchanged

\* ------------------------------------------------------------ module loader
\* models.py import_services_extension_module

import_results(d, f, model_name) ==
  IF model_directory(model_name) \notin d THEN {Raise("KeyError", <<>>)}
  ELSE IF module_candidates(d, f, model_name) = {} THEN {Raise("KeyError", <<>>)}
  ELSE {Ok(q) : q \in module_candidates(d, f, model_name)}

ImportModule(model_name) ==
  /\ loop = Idle
  /\ budget > 0
  /\ budget' = budget - 1
  /\ \E res \in import_results(dirs, files, model_name) :
       ret' = [op |-> "import", arg |-> model_name, val |-> res]
  /\ UNCHANGED <<dirs, files, loop, lastLog, lastDump>>
  /\ CallVarsUnchanged

\* ------------------------------------------------------------ fit store
\* cache.py dump_fit / load_fit

\* Mutant of FitOpened: the file is opened with mode "ab", which keeps what
\* it holds.
FitOpenedAppend(f, path) == IF path \in DOMAIN f THEN f ELSE Truncated(f, path)

\* gzip.open(fit_filename, mode="wb"): the file is created, or truncated
FitOpened(f, path) == Truncated(f, path)

\* lines 58-63: the paths, os.makedirs of the fit's directory, and the
\* file opened for writing
DumpFitOpen(fit_bytes, name) ==
  /\ loop = Idle
  /\ budget > 0
  /\ budget' = budget - 1
  /\ dirs' = makedirs(dirs, fit_path(name))
  /\ \E io \in {"ok", "OSError"} :
       IF io = "ok"
       THEN /\ files' = FitOpened(files, fit_filename(name))
            /\ fit' = [st |-> "open", name |-> name, blob |-> fit_bytes, sent |-> 0]
            /\ loop' = <<"call", 0>>
            /\ ret' = ret
       ELSE /\ ret' = [op |-> "dump_fit", arg |-> name, val |-> Raise("OSError", <<>>)]
            /\ UNCHANGED <<files, fit, loop>>
  /\ UNCHANGED <<req, job, lastLog, lastDump, peerRet, peerReads, ident>>

\* line 64: the writer's buffer is flushed to the file as it fills, before
\* the file is closed
DumpFitFlush ==
  /\ fit.st = "open"
  /\ fit.sent + 1 < Len(GzipMember(fit.blob))
  /\ files' = [files EXCEPT ![fit_filename(fit.name)] =
                 @ \o <<GzipMember(fit.blob)[fit.sent + 1]>>]
  /\ fit' = [fit EXCEPT !.sent = @ + 1]
  /\ UNCHANGED <<dirs, req, job, loop, ret, budget, lastLog, lastDump, peerRet,
                 peerReads, ident>>

\* line 64, leaving the with block: the rest is written and the file closed
DumpFitClose ==
  /\ fit.st = "open"
  /\ files' = [files EXCEPT ![fit_filename(fit.name)] =
                 @ \o SubSeq(GzipMember(fit.blob), fit.sent + 1,
                             Len(GzipMember(fit.blob)))]
  /\ fit' = NoFit
  /\ loop' = Idle
  /\ ret' = [op |-> "dump_fit", arg |-> fit.name, val |-> None]
  /\ lastDump' = [lastDump EXCEPT ![fit.name] = Ok(fit.blob)]
  /\ UNCHANGED <<dirs, req, job, budget, lastLog, peerRet, peerReads, ident>>

\* lines 82-90: what load_fit returns or raises
load_fit(f, name) ==
  IF fit_filename(name) \notin DOMAIN f THEN Raise("KeyError", <<>>)
  ELSE GzipRead(f[fit_filename(name)])

LoadFit(name) ==
  /\ loop = Idle
  /\ budget > 0
  /\ budget' = budget - 1
  /\ ret' = [op |-> "load_fit", arg |-> name, val |-> load_fit(files, name)]
  /\ UNCHANGED <<dirs, files, loop, lastLog, lastDump>>
  /\ CallVarsUnchanged

\* load_fit in a second process that shares the cache root: it does not
\* wait for the event loop of the first.
PeerLoadFit(name) ==
  /\ peerReads < MaxPeerReads
  /\ peerReads' = peerReads + 1
  /\ peerRet' = [arg |-> name, val |-> load_fit(files, name),
                 old |-> lastDump[name],
                 new |-> IF fit.st = "open" /\ fit.name = name
                         THEN Ok(fit.blob) ELSE None]
  /\ UNCHANGED <<dirs, files, req, job, loop, fit, ret, budget, lastLog, lastDump,
                 ident>>

\* ------------------------------------------------------------ specifications

Build ==
  \/ \E r \in Requests, c \in Programs : BuildStart(r, c)
  \/ \E r \in Requests : BuildTranspile(r)
  \/ \E r \in Requests : BuildPersist(r)
  \/ \E r \in Requests : BuildDispatch(r)
  \/ \E r \in Requests : WorkerStart(r)
  \/ \E r \in Requests : WorkerFinish(r)
  \/ \E r \in Requests : BuildResume(r)

Log ==
  \/ \E t \in LogTexts, m \in CacheNames : DumpLog(t, m)
  \/ \E m \in CacheNames : LoadLog(m)
  \/ \E m \in CacheNames : ImportModule(m)

Fit(blobs) ==
  \/ \E b \in blobs, n \in FitNames : DumpFitOpen(b, n)
  \/ DumpFitClose
  \/ \E n \in FitNames : LoadFit(n)

\* The build coordinator and the cache, driven by one event loop.
Next == Build \/ Log \/ Fit({<<>>, <<1>>})

Spec == Init /\ [][Next]_vars

\* A third fit name, "models/<id>//f2": another spelling of "models/<id>/f2".
AliasNames == { calculate_model_name(<<0>>) \o << <<>>, <<"f2">> >> }

AllFitNames == FitNames \cup AliasNames

InitAlias ==
  /\ dirs = {}
  /\ files = <<>>
  /\ req = [r \in Requests |-> [pc |-> "pending", program_code |-> <<>>, out |-> None,
                            cached |-> FALSE]]
  /\ job = [r \in Requests |-> NoJob]
  /\ loop = Idle
  /\ fit = NoFit
  /\ ret = NoRet
  /\ budget = MaxTasks
  /\ lastLog = [m \in ModelNames |-> None]
  /\ lastDump = [n \in AllFitNames |-> None]
  /\ peerRet = [arg |-> <<>>, val |-> None, old |-> None, new |-> None]
  /\ peerReads = 0
  /\ ident = NoIdent

\* The build coordinator and the cache, the fit store called under names
\* of either spelling.
NextAlias ==
  \/ Next
  \/ \E b \in {<<>>, <<1>>}, n \in AliasNames : DumpFitOpen(b, n)
  \/ \E n \in AliasNames : LoadFit(n)

SpecAlias == InitAlias /\ [][NextAlias]_vars

\* The fit store alone, called from the event loop.
InitFit ==
  /\ dirs = {}
  /\ files = <<>>
  /\ req = [r \in Requests |-> [pc |-> "pending", program_code |-> <<>>, out |-> None,
                            cached |-> FALSE]]
  /\ job = [r \in Requests |-> NoJob]
  /\ loop = Idle
  /\ fit = NoFit
  /\ ret = NoRet
  /\ budget = MaxFitCalls
  /\ lastLog = [m \in ModelNames |-> None]
  /\ lastDump = [n \in FitNames |-> None]
  /\ peerRet = [arg |-> <<>>, val |-> None, old |-> None, new |-> None]
  /\ peerReads = 0
  /\ ident = NoIdent

SpecFit == InitFit /\ [][Fit(Blobs)]_vars

\* The build coordinator with callers that give up waiting.
NextCancel ==
  \/ Build
  \/ \E r \in Requests : Cancel(r)

SpecCancel == Init /\ [][NextCancel]_vars

\* The build coordinator alone, its event loop and its executor running
\* what is ready to run: a coroutine that holds the loop runs to its await
\* or its end, a thread takes a queued job, run_build_ext returns or raises,
\* and the loop resumes a coroutine whose job is done.
BuildFairness ==
  \A r \in Requests :
    /\ WF_vars(BuildTranspile(r))
    /\ WF_vars(BuildPersist(r))
    /\ WF_vars(BuildDispatch(r))
    /\ WF_vars(WorkerStart(r))
    /\ WF_vars(WorkerFinish(r))
    /\ WF_vars(BuildResume(r))

SpecLive == Init /\ [][Build]_vars /\ BuildFairness

\* The model name calculation alone, called on two sets of inputs.
IdentityInputs ==
  {<<0>>, <<0, 1>>} \X {httpstan_version, <<1, 1>>} \X {sys_platform, <<2, 3>>}
    \X {sys_maxsize, <<3, 3>>} \X {sys_version, <<1>>} \X {sys_executable, <<2>>}

InitIdentity ==
  /\ dirs = {}
  /\ files = <<>>
  /\ req = [r \in Requests |-> [pc |-> "pending", program_code |-> <<>>, out |-> None,
                            cached |-> FALSE]]
  /\ job = [r \in Requests |-> NoJob]
  /\ loop = Idle
  /\ fit = NoFit
  /\ ret = NoRet
  /\ budget = 0
  /\ lastLog = [m \in ModelNames |-> None]
  /\ lastDump = [n \in FitNames |-> None]
  /\ peerRet = [arg |-> <<>>, val |-> None, old |-> None, new |-> None]
  /\ peerReads = 0
  /\ \E a, b \in IdentityInputs :
       ident = [a |-> a, b |-> b, na |-> None, nb |-> None]

CalculateNames ==
  /\ ident.na = None
  /\ ident' = [ident EXCEPT
                 !.na = Ok(ModelNameOf(ident.a[1], ident.a[2], ident.a[3],
                                       ident.a[4], ident.a[5], ident.a[6])),
                 !.nb = Ok(ModelNameOf(ident.b[1], ident.b[2], ident.b[3],
                                       ident.b[4], ident.b[5], ident.b[6]))]
  /\ UNCHANGED <<dirs, files, req, job, loop, fit, ret, budget, lastLog, lastDump,
                 peerRet, peerReads>>

SpecIdentity == InitIdentity /\ [][CalculateNames]_vars

\* The fit store written by the event loop's process while a second
\* process reads it.
NextPeer ==
  \/ Fit(Blobs)
  \/ DumpFitFlush
  \/ \E n \in FitNames : PeerLoadFit(n)

SpecPeer == InitFit /\ [][NextPeer]_vars

\* ------------------------------------------------------------ properties

ModelOf(r) == calculate_model_name(req[r].program_code)

Transpiled(r) == compile(req[r].program_code, stan_model_name_of(ModelOf(r)))

Started(r) == req[r].pc # "pending"

\* the request got as far as the native build
ReachedNative(r) ==
  \/ req[r].pc \in {"compiling", "succeeded"}
  \/ req[r].pc = "failed" /\ req[r].out.k = "BuildError"

\* a native build of the model has succeeded
ModuleBuilt(model_name) ==
  \E r \in Requests : /\ job[r].st = "done"
                      /\ job[r].out.k = "ok"
                      /\ job[r].build_lib = model_directory(model_name)

\* the text holds w as a run of consecutive pieces
Contains(text, w) ==
  \E i \in 0..(Len(text) - Len(w)) : SubSeq(text, i + 1, i + Len(w)) = w

\* C1, as claimed: at most one native build is ever executed for a model
\* identity, whatever the number of build requests for it.
C1_OneNativeBuildPerIdentity ==
  \A r1, r2 \in Requests :
    (r1 # r2 /\ job[r1].st # "none" /\ job[r2].st # "none")
      => job[r1].build_lib # job[r2].build_lib

\* C1, amended: the coordinator does not share builds.  Every request that
\* gets as far as the native build has dispatched a native build of its own,
\* exactly one, into its model directory; so the native builds executed for
\* an identity are as many as the requests for it that got that far.
C1_EveryRequestBuildsItself ==
  /\ \A r \in Requests :
       ReachedNative(r) <=> /\ job[r].st # "none"
                            /\ job[r].runs = IF job[r].st = "queued" THEN 0 ELSE 1
                            /\ job[r].build_lib = model_directory(ModelOf(r))
  /\ \A m \in ModelNames :
       Cardinality({r \in Requests : job[r].st # "none"
                                     /\ job[r].build_lib = model_directory(m)})
         = Cardinality({r \in Requests : ReachedNative(r) /\ ModelOf(r) = m})

\* C1 witness: two requests for the same program have their native builds
\* running at the same time.
C1_Witness ==
  \E r1, r2 \in Requests :
    /\ r1 # r2
    /\ req[r1].program_code = req[r2].program_code
    /\ job[r1].st = "running"
    /\ job[r2].st = "running"

C3_ReadBeforeWriteIsKeyError ==
  /\ (ret.op = "load_log" /\ lastLog[ret.arg] = None) => ret.val.k = "KeyError"
  /\ (ret.op = "import" /\ ~ModuleBuilt(ret.arg)) => ret.val.k = "KeyError"
  /\ (ret.op = "load_fit" /\ lastDump[ret.arg] = None) => ret.val.k = "KeyError"

\* C4, as claimed: a log write without the model directory raises KeyError
\* and leaves no log; a log read returns the text of the last completed
\* write verbatim.
C4_LogReadReturnsLastWrite ==
  /\ (ret.op = "dump_log" /\ model_directory(ret.arg) \notin dirs)
       => ret.val.k = "KeyError" /\ log_path(ret.arg) \notin DOMAIN files
  /\ (ret.op = "load_log" /\ lastLog[ret.arg] # None)
       => ret.val = lastLog[ret.arg]

\* C5: a request whose program the transpiler rejects ends with the
\* transpiler's error as raised, never dispatches a native build, and
\* leaves neither a generated source nor a module in the model directory.
C5_RejectedProgramStopsBuild ==
  \A r \in Requests :
    (Started(r) /\ Transpiled(r).k # "ok") =>
      /\ req[r].pc \in {"transpiling", "failed"}
      /\ req[r].pc = "failed" => req[r].out = Transpiled(r)
      /\ job[r].st = "none"
      /\ cpp_code_path_of(ModelOf(r)) \notin DOMAIN files
      /\ module_candidates(dirs, files, ModelOf(r)) = {}

\* C5 witness: one request has failed with the transpiler's syntax error
\* and another with its semantic error.
C5_Witness ==
  \E r1, r2 \in Requests :
    /\ req[r1].pc = "failed" /\ req[r1].out = Raise("ValueError", <<"Syntax error in">>)
    /\ req[r2].pc = "failed" /\ req[r2].out = Raise("ValueError", <<"Semantic error in">>)

\* C6, as claimed: no build fails because the generated code could not be
\* written; a build fails only with the transpiler's or the toolchain's
\* error.
C6_PersistFailureDoesNotFailBuild ==
  \A r \in Requests :
    req[r].pc = "failed" => req[r].out.k \in {"ValueError", "BuildError"}

\* C7, as claimed: the text a successful build returns holds the warnings
\* the transpiler gave for the program.
C7_WarningsInReturnedText ==
  \A r \in Requests :
    req[r].pc = "succeeded" => Contains(req[r].out.v, Transpiled(r).v.warnings)

\* C7, amended: the text a successful build returns is the text captured
\* from the native build, unchanged; the transpiler's warnings are not
\* added to it.
C7_ReturnsNativeBuildText ==
  \A r \in Requests :
    req[r].pc = "succeeded" =>
      /\ job[r].st = "done"
      /\ job[r].out.k = "ok"
      /\ req[r].out = job[r].out

\* C7 witness: a build of the program with the integer-division warning
\* has succeeded.
C7_Witness ==
  \E r \in Requests :
    /\ req[r].pc = "succeeded"
    /\ Transpiled(r).v.warnings = <<"int division">>

\* C8: a request calls the native build at most once; when the native build
\* fails the request ends with the toolchain's error as raised, and the
\* model directory and the generated source written into it are still
\* there.
C8_NativeFailurePropagates ==
  \A r \in Requests :
    /\ job[r].runs <= 1
    /\ (req[r].pc = "failed" /\ job[r].st # "none") =>
         /\ job[r].st = "done"
         /\ req[r].out = job[r].out
         /\ req[r].out.k = "BuildError"
         /\ model_directory(ModelOf(r)) \in dirs
         /\ cpp_code_path_of(ModelOf(r)) \in DOMAIN files
         /\ files[cpp_code_path_of(ModelOf(r))] = TextWrite(Transpiled(r).v.cpp_code)

\* C8 witness: a request has failed with the toolchain's error.
C8_Witness ==
  \E r \in Requests :
    req[r].pc = "failed" /\ req[r].out = Raise("BuildError", <<"error">>)

\* C9: a request that awaits its native build does not hold the event loop:
\* while the toolchain runs, the loop is free for, or running, another task,
\* and a free loop accepts a new build, a log call and a fit call.
C9_AwaitLeavesLoopFree ==
  \A r \in Requests :
    (req[r].pc = "compiling" /\ job[r].st = "running") =>
      /\ loop # <<"build", r>>
      /\ (loop = Idle /\ budget > 0) =>
           /\ ENABLED (\E q \in Requests, c \in Programs : BuildStart(q, c))
           /\ ENABLED Log
           /\ ENABLED Fit({<<>>, <<1>>})

\* C9 witness: while a request awaits its running native build, a request
\* started later for another program has succeeded, and a log read made
\* after the first request created its directory has completed.
C9_Witness ==
  \E r, q \in Requests :
    /\ r < q
    /\ req[r].pc = "compiling" /\ job[r].st = "running"
    /\ req[q].pc = "succeeded"
    /\ req[q].program_code # req[r].program_code
    /\ ret.op = "load_log" /\ ret.arg = ModelOf(r)
    /\ ret.val.k = "FileNotFoundError"

\* C10, as claimed: a load_fit in a second process, made while at most one
\* dump_fit of the name is under way, raises KeyError or returns the whole
\* blob stored before or the whole new blob.
C10_PeerNeverSeesHalfDoneFit ==
  peerRet.val.k # "None" =>
    \/ peerRet.val.k = "KeyError"
    \/ peerRet.val = peerRet.old
    \/ peerRet.val = peerRet.new

\* the fit name lies in or below the model directory
FitUnder(name, model_name) == model_directory(model_name) \in Prefixes(fit_path(name))

\* the step is the start of a build request for the model
StartsBuildOf(model_name) ==
  \E r \in Requests : /\ req[r].pc = "pending"
                      /\ req'[r].pc = "transpiling"
                      /\ calculate_model_name(req'[r].program_code) = model_name

\* the step is a dump_fit call reaching its gzip.open, which succeeds or
\* raises OSError
OpensFit(name) ==
  /\ budget' = budget - 1
  /\ req' = req
  /\ \/ fit'.st = "open" /\ fit.st = "closed" /\ fit'.name = name
     \/ fit' = fit /\ ret'.op = "dump_fit" /\ ret'.arg = name /\ ret'.val.k = "OSError"

\* the step is a whole call of the build log or of a loader
IsCacheCall(ops) ==
  /\ budget' = budget - 1
  /\ req' = req
  /\ fit' = fit
  /\ ret'.op \in ops

\* C11, as claimed: a model directory exists only if a build was started
\* for its identity, and a log write for an identity never built raises
\* KeyError.
C11_DirectoryOnlyFromBuild ==
  /\ \A m \in ModelNames :
       model_directory(m) \in dirs => \E r \in Requests : Started(r) /\ ModelOf(r) = m
  /\ (ret.op = "dump_log" /\ ~\E r \in Requests : Started(r) /\ ModelOf(r) = ret.arg)
       => ret.val.k = "KeyError"

\* C11, amended: a model directory comes into existence only in the start
\* of a build for its identity or in a dump_fit under a fit name that lies
\* below it; the log calls and the loaders create no directory, and a log
\* write for an identity whose directory does not exist raises KeyError.
C11_DirectoryFromBuildOrFitStore ==
  [][ /\ \A m \in ModelNames :
           (model_directory(m) \notin dirs /\ model_directory(m) \in dirs')
             => \/ StartsBuildOf(m)
                \/ \E n \in FitNames : FitUnder(n, m) /\ OpensFit(n)
      /\ IsCacheCall({"dump_log", "load_log", "import", "load_fit"})
           => dirs' = dirs
      /\ (IsCacheCall({"dump_log"}) /\ model_directory(ret'.arg) \notin dirs)
           => ret'.val.k = "KeyError" /\ files' = files
    ]_vars

\* C11 witness: a log write has succeeded for an identity no build was ever
\* started for, its directory made by a dump_fit below it.
C11_Witness ==
  /\ ret.op = "dump_log"
  /\ ret.val = None
  /\ log_path(ret.arg) \in DOMAIN files
  /\ \A r \in Requests : ~(Started(r) /\ ModelOf(r) = ret.arg)

\* C12: the coordinator never skips a build.  A request that found a module
\* file in its model directory when it started goes through the transpiler
\* and dispatches a native build of its own like any other, and succeeds
\* only with the text of its own native build, which ran once.
C12_NoAutoSkip ==
  \A r \in Requests :
    req[r].cached =>
      /\ req[r].pc \in {"transpiling", "persisting", "describing"}
           => loop = <<"build", r>> /\ job[r].st = "none"
      /\ req[r].pc \in {"describing", "compiling", "succeeded"}
           => /\ cpp_code_path_of(ModelOf(r)) \in DOMAIN files
              /\ files[cpp_code_path_of(ModelOf(r))] = TextWrite(Transpiled(r).v.cpp_code)
      /\ req[r].pc \in {"compiling", "succeeded"}
           => /\ job[r].st # "none"
              /\ job[r].build_lib = model_directory(ModelOf(r))
      /\ req[r].pc = "succeeded"
           => /\ job[r].st = "done"
              /\ job[r].runs = 1
              /\ req[r].out = job[r].out

\* C12 witness: a request that found a module file when it started has
\* succeeded, after a request for the same program that had succeeded.
C12_Witness ==
  \E q, r \in Requests :
    /\ q < r
    /\ req[q].pc = "succeeded"
    /\ req[r].program_code = req[q].program_code
    /\ req[r].cached
    /\ req[r].pc = "succeeded"

\* the caller of the request gave up
GaveUp(r) == req[r].pc = "failed" /\ req[r].out.k = "CancelledError"

\* C13, as claimed: once a request has dispatched its native build,
\* cancelling the request never cancels the native build.
C13_DispatchedBuildNeverCancelled ==
  \A r \in Requests : job[r].st # "cancelled"

\* C13, amended: cancelling the request does not stop a native build that a
\* thread of the executor has started: the build stays running, can still
\* finish and write its module file after the caller gave up.  Only a build
\* still waiting in the executor's queue is cancelled, and it never runs.
C13_StartedBuildSurvivesCancel ==
  \A r \in Requests :
    /\ job[r].st = "cancelled" => job[r].runs = 0 /\ GaveUp(r)
    /\ job[r].runs > 0 => job[r].st \in {"running", "done"}
    /\ (GaveUp(r) /\ job[r].st = "running") => ENABLED WorkerFinish(r)
    /\ GaveUp(r) => job[r].st # "queued"

\* C13 witness: the caller gave up while the native build was running; the
\* build is still running and no module file is in the model directory yet.
C13_Witness ==
  \E r \in Requests :
    /\ GaveUp(r)
    /\ job[r].st = "running"
    /\ module_candidates(dirs, files, ModelOf(r)) = {}

\* C14: the directory-ensure step of a build is idempotent.  For a model
\* directory that exists, the start of a build does not fail (the request
\* goes on to the transpiler) and leaves the directories and every file as
\* they are; for one that does not, it adds the directory and its parents
\* and touches no file.  Ensuring a directory twice gives what ensuring it
\* once gives.
C14_EnsureIsIdempotent ==
  [][ /\ \A r \in Requests :
           (req[r].pc = "pending" /\ req'[r].pc # "pending") =>
             LET model_directory_path ==
                   model_directory(calculate_model_name(req'[r].program_code))
             IN /\ req'[r].pc = "transpiling"
                /\ files' = files
                /\ dirs' = makedirs(dirs, model_directory_path)
                /\ model_directory_path \in dirs => dirs' = dirs
                /\ makedirs(dirs', model_directory_path) = dirs'
      /\ \A m \in ModelNames :
           makedirs(makedirs(dirs, model_directory(m)), model_directory(m))
             = makedirs(dirs, model_directory(m))
    ]_vars

\* C14 witness: a build has started for a program whose model directory
\* held the generated source, the module file and the build log of an
\* earlier build, all still there.
C14_Witness ==
  \E r \in Requests :
    /\ req[r].pc = "transpiling"
    /\ req[r].cached
    /\ cpp_code_path_of(ModelOf(r)) \in DOMAIN files
    /\ log_path(ModelOf(r)) \in DOMAIN files
    /\ module_candidates(dirs, files, ModelOf(r)) # {}

\* the form of a model name: "models/" and a token of eight characters of
\* the lower-case base-32 alphabet
IsModelName(name) ==
  /\ Len(name) = 2
  /\ name[1] = <<"models">>
  /\ Len(name[2]) = (8 * digest_size) \div 5
  /\ \A i \in DOMAIN name[2] : \E j \in DOMAIN b32alphabet : name[2][i] = b32alphabet[j]

\* C15, as claimed: equal inputs give the same model name, of the form
\* models/<token> with a token of fixed length, and inputs that differ in
\* at least one of the six strings give different model names (the digest
\* taken as collision-free on distinct byte streams).
C15_DistinctInputsDistinctNames ==
  ident.na # None =>
    /\ IsModelName(ident.na.v) /\ IsModelName(ident.nb.v)
    /\ ident.a = ident.b => ident.na = ident.nb
    /\ ident.a # ident.b => ident.na # ident.nb

\* The steps of a request, in the order of the code: Pending; Transpiling
\* (the transpiler, the write of the generated code, the build
\* description); Compiling; Succeeded or Failed.
Rank(pc) ==
  CASE pc = "pending" -> 0
    [] pc = "transpiling" -> 1
    [] pc = "persisting" -> 2
    [] pc = "describing" -> 3
    [] pc = "compiling" -> 4
    [] pc \in {"succeeded", "failed"} -> 5

Ended(r) == req[r].pc \in {"succeeded", "failed"}

\* C16: a request moves only forward through Pending, Transpiling,
\* Compiling and Succeeded or Failed.  Each step takes it to the next
\* position or to Failed, and only the await of the native build ends in
\* Succeeded, so no position is entered twice and the transpiler runs once;
\* the model directory exists from the transpiler's call on; the generated
\* code is on disk and the transpiler has accepted the program before a
\* native build is dispatched; and, the transpiler and the native build
\* returning or raising, every request that started ends in Succeeded or
\* Failed: from some point on, no started request is left unended.
C16_ForwardToTheEnd ==
  /\ [][ \A r \in Requests :
           req'[r].pc # req[r].pc =>
             /\ Rank(req'[r].pc) > Rank(req[r].pc)
             /\ \/ Rank(req'[r].pc) = Rank(req[r].pc) + 1
                \/ req'[r].pc = "failed" /\ req[r].pc # "pending"
             /\ req'[r].pc = "succeeded" => req[r].pc = "compiling"
       ]_vars
  /\ [](\A r \in Requests :
          /\ Started(r) => model_directory(ModelOf(r)) \in dirs
          /\ job[r].st # "none" =>
               /\ Rank(req[r].pc) >= 4
               /\ Transpiled(r).k = "ok"
               /\ cpp_code_path_of(ModelOf(r)) \in DOMAIN files)
  /\ <>[](\A r \in Requests : Started(r) => Ended(r))

\* C16 witness: every request has ended: one succeeded, one failed in the
\* native build and one was rejected by the transpiler.
C16_Witness ==
  /\ \A r \in Requests : Ended(r)
  /\ \E r \in Requests : req[r].pc = "succeeded"
  /\ \E r \in Requests : req[r].pc = "failed" /\ req[r].out.k = "BuildError"
  /\ \E r \in Requests : req[r].pc = "failed" /\ req[r].out.k = "ValueError"

\* the files, directories left out, that lie in the model directory and
\* whose suffix is one of a native extension
ExtensionFiles(model_name) ==
  {p \in DOMAIN files : /\ Len(p) = Len(model_directory(model_name)) + 1
                        /\ SubSeq(p, 1, Len(p) - 1) = model_directory(model_name)
                        /\ suffix(Last(p)) \in EXTENSION_SUFFIXES}

\* the files written into the model directories by the transpiler step,
\* the build log and the fit store
OtherArtifacts ==
  {cpp_code_path_of(m) : m \in ModelNames} \cup {log_path(m) : m \in ModelNames}
    \cup {fit_filename(n) : n \in FitNames}

\* C17: a call of the module loader returns a module exactly when the model
\* directory exists and holds a file with a native extension suffix, and
\* that file is what it loads; otherwise it raises KeyError.  With the
\* build coordinator as the only writer of modules: a model with a request
\* that succeeded has a module to load, a model whose requests all failed
\* has none, and the generated source, the build log and the fit files are
\* never taken for the module.
C17_ModuleFoundIffBuilt ==
  /\ [][ IsCacheCall({"import"}) =>
           /\ ret'.val.k \in {"ok", "KeyError"}
           /\ ret'.val.k = "ok" <=> /\ model_directory(ret'.arg) \in dirs
                                    /\ ExtensionFiles(ret'.arg) # {}
           /\ ret'.val.k = "ok" => /\ ret'.val.v \in ExtensionFiles(ret'.arg)
                                   /\ ret'.val.v \notin OtherArtifacts
           /\ dirs' = dirs /\ files' = files
       ]_vars
  /\ [](\A m \in ModelNames :
          /\ (\E r \in Requests : ModelOf(r) = m /\ req[r].pc = "succeeded")
               => \A res \in import_results(dirs, files, m) : res.k = "ok"
          /\ (\A r \in Requests : (Started(r) /\ ModelOf(r) = m) => req[r].pc = "failed")
               => import_results(dirs, files, m) = {Raise("KeyError", <<>>)}
          /\ module_candidates(dirs, files, m) \cap OtherArtifacts = {})

\* C17 witness: the loader has returned the module of a model whose
\* directory also holds the generated source and a fit file.
C17_Witness ==
  /\ ret.op = "import"
  /\ ret.val.k = "ok"
  /\ cpp_code_path_of(ret.arg) \in DOMAIN files
  /\ \E n \in FitNames : /\ fit_filename(n) \in DOMAIN files
                         /\ fit_path(n) = model_directory(ret.arg)

\* a task other than the one that holds the event loop can take a step on
\* the loop: a build request starts or resumes, or a cache call is made
OtherTaskCanRun ==
  \/ ENABLED (\E q \in Requests, c \in Programs : BuildStart(q, c))
  \/ ENABLED (\E q \in Requests : BuildResume(q))
  \/ ENABLED Log
  \/ ENABLED (\E b \in {<<>>, <<1>>}, n \in FitNames : DumpFitOpen(b, n))
  \/ ENABLED (\E n \in FitNames : LoadFit(n))

LogFile(f, model_name) ==
  IF log_path(model_name) \in DOMAIN f THEN Ok(f[log_path(model_name)]) ELSE None

\* the step belongs to a build: a request or its executor job moves
IsBuildStep == req' # req \/ job' # job

\* C19: a build never writes the build log.  No step of a build request or
\* of its native build changes the log file of any model, so a log file
\* exists only where a log write completed and holds the text of the last
\* one; after a build that succeeded with no log write for its model, no
\* log file is there to read.
C19_BuildLeavesLogAlone ==
  /\ [][ IsBuildStep =>
           \A m \in ModelNames : LogFile(files', m) = LogFile(files, m)
       ]_vars
  /\ [](\A m \in ModelNames :
          /\ lastLog[m] = None => LogFile(files, m) = None
          /\ lastLog[m] # None => LogFile(files, m) = Ok(TextWrite(lastLog[m].v)))

\* C19 witness: a build has succeeded and a log read for its model, with no
\* log written, found no log file.
C19_Witness ==
  \E r \in Requests :
    /\ req[r].pc = "succeeded"
    /\ lastLog[ModelOf(r)] = None
    /\ ret.op = "load_log"
    /\ ret.arg = ModelOf(r)
    /\ ret.val.k \notin {"ok", "None"}

\* the generated source, the module files and the build log of a model
ModelArtifacts(f, model_name) ==
  [p \in {q \in DOMAIN f : q = cpp_code_path_of(model_name)
                            \/ q = log_path(model_name)
                            \/ q \in module_candidates(dirs, f, model_name)}
     |-> f[p]]

\* the step belongs to a dump_fit under the name: its open or its close
IsDumpFitStep(name) ==
  \/ fit'.st = "open" /\ fit.st = "closed" /\ fit'.name = name
  \/ fit.st = "open" /\ fit'.st = "closed" /\ fit.name = name
  \/ fit' = fit /\ budget' = budget - 1 /\ req' = req
       /\ ret'.op = "dump_fit" /\ ret'.arg = name /\ ret'.val.k = "OSError"

\* the step is a log write
IsDumpLogStep == IsCacheCall({"dump_log"})

\* the file a fit name stands for
Resolved(name) == SelectSeq(name, IsSegment)

\* C20, as claimed: a dump_fit under one name changes neither what load_fit
\* returns or raises for any other name nor the generated source, module
\* files or build log of any model; and no log write and no step of a build
\* changes what load_fit returns or raises for any name.
C20_DistinctNamesIsolated ==
  [][ /\ \A n1 \in AllFitNames :
           IsDumpFitStep(n1) =>
             /\ \A n2 \in AllFitNames \ {n1} : load_fit(files', n2) = load_fit(files, n2)
             /\ \A m \in ModelNames : ModelArtifacts(files', m) = ModelArtifacts(files, m)
      /\ (IsDumpLogStep \/ IsBuildStep) =>
           \A n \in AllFitNames : load_fit(files', n) = load_fit(files, n)
    ]_vars

\* C20, amended: the fit store keeps apart the names that stand for
\* different files.  A dump_fit under one name changes neither what
\* load_fit returns or raises for a name of another file nor the generated
\* source, module files or build log of any model, and it does change what
\* load_fit returns for another spelling of its own name; no log write and
\* no step of a build changes what load_fit returns or raises for any name.
C20_FitStoreIsolation ==
  [][ /\ \A n1 \in AllFitNames :
           IsDumpFitStep(n1) =>
             /\ \A n2 \in AllFitNames :
                  Resolved(n2) # Resolved(n1)
                    => load_fit(files', n2) = load_fit(files, n2)
             /\ \A n2 \in AllFitNames :
                  Resolved(n2) = Resolved(n1)
                    => load_fit(files', n2) = load_fit(files', n1)
             /\ \A m \in ModelNames : ModelArtifacts(files', m) = ModelArtifacts(files, m)
      /\ (IsDumpLogStep \/ IsBuildStep) =>
           \A n \in AllFitNames : load_fit(files', n) = load_fit(files, n)
    ]_vars

\* C20 witness: with the generated source, the module and a fit of one name
\* in the model directory, a dump_fit under a name of another file has
\* completed, and the fit of the first name still reads as stored.
C20_Witness ==
  \E n1, n2 \in AllFitNames :
    /\ Resolved(n1) # Resolved(n2)
    /\ ret.op = "dump_fit" /\ ret.arg = n1 /\ ret.val = None
    /\ lastDump[n1] = Ok(<<1>>)
    /\ lastDump[n2] = Ok(<<>>)
    /\ load_fit(files, n2) = Ok(<<>>)
    /\ load_fit(files, n1) = Ok(<<1>>)
    /\ \E m \in ModelNames : /\ FitUnder(n1, m)
                             /\ cpp_code_path_of(m) \in DOMAIN files
                             /\ module_candidates(dirs, files, m) # {}

====
